---- MODULE Spec2Model ----
(***************************************************************************)
(* DirPixel (src/main.py): the background generation worker               *)
(* ImageGeneratorThread and the window ImageReplacerApp that drives it.    *)
(*                                                                         *)
(* Text (file names, prompts) is a sequence of one-character strings, so   *)
(* that lower(), endswith(), splitext() and f-string concatenation are     *)
(* computed and not assumed.                                               *)
(***************************************************************************)
EXTENDS Integers, Sequences, FiniteSets, TLC

(* ------------------------------ bounds -------------------------------- *)
\* longest directory listing of the source folder
MaxFiles == 3
\* most cancel() calls a test harness makes on one worker
MaxCancels == 2
\* most workers one window constructs
MaxWorkers == 1
\* longest directory listing of the folder a window is pointed at
MaxShellFiles == 2

\* longest directory listing of the runs followed to their end
MaxLiveFiles == 2

Workers == 1..MaxWorkers

(* ------------------------------- text --------------------------------- *)
GlobalKey == <<"g", "l", "o", "b", "a", "l">>
Suffix == <<" ", "-", " ", "u", "n", "i", "q", "u", "e", " ", "v", "a", "r", "i", "a", "t", "i", "o", "n", " ", "f", "o", "r", " ">>
ExtPng == <<".", "p", "n", "g">>
ExtJpg == <<".", "j", "p", "g">>
ExtJpeg == <<".", "j", "p", "e", "g">>

\* self.image_extensions of the window: ['.png', '.jpg', '.jpeg']
image_extensions == <<ExtPng, ExtJpg, ExtJpeg>>

\* the extension lists a caller may construct a worker with: the window's,
\* and one whose member is written in upper case
ExtensionLists == { image_extensions, << <<".", "P", "N", "G">> >> }

\* the directory entries the source folder may hold, in the order
\* os.listdir gives them
Entries ==
  << <<"a", ".", "j", "p", "g">>,
     <<"a", ".", "j", "p", "e", "g">>,
     <<"B", ".", "P", "N", "G">>,
     <<"n", ".", "t", "x", "t">> >>

\* prompt texts a caller may give
GlobalTexts == { <<>>, <<"s", "u", "n">> }
CustomTexts == { <<>>, <<"c", "a", "t">> }
\* file names a caller may give a prompt of their own
CustomKeys == { <<"a", ".", "j", "p", "g">> }

\* str.lower() on one character
LowerChar(c) ==
  CASE c = "A" -> "a" [] c = "B" -> "b" [] c = "E" -> "e" [] c = "G" -> "g"
    [] c = "J" -> "j" [] c = "N" -> "n" [] c = "P" -> "p" [] c = "T" -> "t"
    [] c = "X" -> "x" [] OTHER -> c

\* str.lower()
Lower(s) == [k \in 1..Len(s) |-> LowerChar(s[k])]

\* str.endswith(ext)
EndsWith(s, ext) ==
  /\ Len(ext) <= Len(s)
  /\ SubSeq(s, Len(s) - Len(ext) + 1, Len(s)) = ext

\* index of the last "." of s, 0 when there is none
RECURSIVE LastDot(_, _)
LastDot(s, k) ==
  IF k = 0 THEN 0 ELSE IF s[k] = "." THEN k ELSE LastDot(s, k - 1)

\* os.path.splitext(filename): <<root, ext>>; a leading dot is not an
\* extension separator
SplitExt(s) ==
  LET d == LastDot(s, Len(s))
  IN IF d <= 1 THEN <<s, <<>>>>
     ELSE <<SubSeq(s, 1, d - 1), SubSeq(s, d, Len(s))>>

\* the filter of get_image_files / load_files on one entry
IsImage(filename, exts) ==
  \E k \in 1..Len(exts) : EndsWith(Lower(filename), exts[k])

\* get_image_files: the entries of the listing that pass, in listing order
get_image_files(listing, exts) ==
  SelectSeq(listing, LAMBDA f : IsImage(f, exts))

\* dict.get(key, default)
DictGet(d, key, default) == IF key \in DOMAIN d THEN d[key] ELSE default

\* lines 55-57 with the test of line 56 reduced to "if prompt"
ResolvePromptSuffixAlways(filename, prompts) ==
  LET prompt == DictGet(prompts, filename, DictGet(prompts, GlobalKey, <<>>))
  IN IF prompt # <<>> THEN prompt \o Suffix \o filename ELSE prompt

\* lines 55-57 of run(): the prompt of one file
ResolvePrompt(filename, prompts) ==
  LET prompt == DictGet(prompts, filename, DictGet(prompts, GlobalKey, <<>>))
  IN IF filename \notin DOMAIN prompts /\ prompt # <<>>
     THEN prompt \o Suffix \o filename
     ELSE prompt

\* lines 65-75 with line 67 testing for '.jpg' alone
OutputNameJpgOnly(filename) ==
  LET name_without_ext == SplitExt(filename)[1]
      original_ext == Lower(SplitExt(filename)[2])
  IN IF original_ext = ExtJpg
     THEN <<name_without_ext \o ExtJpg, "jpeg">>
     ELSE <<name_without_ext \o ExtPng, "png">>

\* the output name of lines 65-75: <<name, "jpeg" | "png">>
OutputName(filename) ==
  LET name_without_ext == SplitExt(filename)[1]
      original_ext == Lower(SplitExt(filename)[2])
  IN IF original_ext \in {ExtJpg, ExtJpeg}
     THEN <<name_without_ext \o ExtJpg, "jpeg">>
     ELSE <<name_without_ext \o ExtPng, "png">>

(* ------------------- int((i + 1) / total * 100) ------------------------ *)
(* Python's / on two ints and * on a float and an int are IEEE-754 binary64  *)
(* operations, each rounded to nearest, ties to even; int() truncates.      *)
(* A number is a sequence of bits, most significant first, with a scale:    *)
(* its value is the integer the bits spell times 2^-scale.                  *)

\* bits of the significand of a binary64 number
Precision == 53

\* the integer a bit sequence spells
RECURSIVE BitsToInt(_)
BitsToInt(b) ==
  IF b = <<>> THEN 0
  ELSE 2 * BitsToInt(SubSeq(b, 1, Len(b) - 1)) + b[Len(b)]

\* the bits of a natural number, none for 0
RECURSIVE ToBits(_)
ToBits(n) == IF n = 0 THEN <<>> ELSE Append(ToBits(n \div 2), n % 2)

\* b + 1
RECURSIVE IncBits(_)
IncBits(b) ==
  IF b = <<>> THEN <<1>>
  ELSE IF b[Len(b)] = 0 THEN Append(SubSeq(b, 1, Len(b) - 1), 1)
  ELSE Append(IncBits(SubSeq(b, 1, Len(b) - 1)), 0)

\* b * m + carry, for a small m
RECURSIVE MulBits(_, _, _)
MulBits(b, m, carry) ==
  IF b = <<>> THEN ToBits(carry)
  ELSE LET d == m * b[Len(b)] + carry
       IN IF d % 2 = 0
          THEN Append(MulBits(SubSeq(b, 1, Len(b) - 1), m, d \div 2), 0)
          ELSE Append(MulBits(SubSeq(b, 1, Len(b) - 1), m, d \div 2), 1)

\* round a number (bits b with a leading 1, scale, sticky: whether digits
\* beyond b are non-zero) to Precision bits, to nearest, ties to even
RoundBits(b, scale, sticky) ==
  IF Len(b) <= Precision THEN [bits |-> b, scale |-> scale]
  ELSE LET keep == SubSeq(b, 1, Precision)
           rest == SubSeq(b, Precision + 2, Len(b))
           st == sticky \/ \E k \in 1..Len(rest) : rest[k] = 1
           up == b[Precision + 1] = 1 /\ (st \/ keep[Precision] = 1)
       IN [bits |-> IF up THEN IncBits(keep) ELSE keep,
           scale |-> scale - (Len(b) - Precision)]

\* long division r / n, for 0 < r <= n: the first Precision + 1 significant
\* bits of the quotient, the binary place of the last of them and whether a
\* remainder is left; zeros counts the places before the first 1
RECURSIVE QuotBits(_, _, _, _)
QuotBits(r, n, acc, zeros) ==
  LET bit == IF r >= n THEN 1 ELSE 0
      r2 == 2 * (r - bit * n)
  IN IF acc = <<>> /\ bit = 0 THEN QuotBits(r2, n, acc, zeros + 1)
     ELSE IF Len(acc) = Precision
     THEN [bits |-> Append(acc, bit), scale |-> zeros + Precision,
           rem |-> r2]
     ELSE QuotBits(r2, n, Append(acc, bit), zeros)

\* the float k / n, for 1 <= k <= n
FloatDiv(k, n) ==
  LET q == QuotBits(k, n, <<>>, 0)
  IN RoundBits(q.bits, q.scale, q.rem # 0)

\* the float x * m, for a small positive integer m
FloatMul(x, m) == RoundBits(MulBits(x.bits, m, 0), x.scale, FALSE)

\* int(x), for x >= 0
FloatToInt(x) ==
  IF x.scale <= 0
  THEN BitsToInt(x.bits \o [k \in 1..(0 - x.scale) |-> 0])
  ELSE IF x.scale >= Len(x.bits) THEN 0
  ELSE BitsToInt(SubSeq(x.bits, 1, Len(x.bits) - x.scale))

\* k * 100 / n rounded to the nearest integer, ties to the even one
RoundPercent(k, n) ==
  LET q == (100 * k) \div n
      r == (100 * k) % n
  IN IF 2 * r > n \/ (2 * r = n /\ q % 2 = 1) THEN q + 1 ELSE q

\* line 84 with round() in the place of int()
PercentRounded(k, total) == RoundPercent(k, total)

\* line 84: int((i + 1) / total * 100), k standing for i + 1
Percent(k, total) == FloatToInt(FloatMul(FloatDiv(k, total), 100))

(* ------------------------------- state -------------------------------- *)
VARIABLES
  folder,         \* os.listdir(source_folder): the entries of the source folder
  listable,       \* whether os.listdir(source_folder) returns (else it raises)
  exts,           \* the image_extensions a lone worker is constructed with
  pc,             \* per worker: where its thread stands in run()
  files,          \* per worker: self.files
  prompts,        \* per worker: self.prompts
  cancelledFlag,  \* per worker: self._cancelled
  i,              \* per worker: the loop index of run()
  prompt,         \* per worker: the local prompt of run()
  status_code,    \* per worker: response.status_code
  events,         \* per worker: the signals emitted so far, in order
  requests,       \* per worker: the URLs requested so far, with their file
  written,        \* per worker: the output files written so far
  connected,      \* per worker: whether the signals are connected to a window
  cpc,            \* per worker: where a caller of cancel() stands
  cancelledAt,    \* per worker: where run() stood at the first cancel()
  ncancel,        \* cancel() calls made so far by the caller of a lone worker
  source_folder,  \* window: self.source_folder
  generate_btn,   \* window: generate_btn.isEnabled()
  cancel_btn,     \* window: cancel_btn.isEnabled()
  thread,         \* window: self.thread, 0 when the attribute is not there
  queue,          \* window: signals queued to the GUI thread
  modal,          \* window: the open message boxes, innermost last
  global_prompt_edit,  \* window: the text of the global prompt field
  table,          \* window: the rows of the file table
  nworkers,       \* workers constructed so far
  aborted,        \* the process was aborted by Qt
  closing         \* window: how far closeEvent got: "no" before it is called

workerVars == <<pc, files, prompts, cancelledFlag, i, prompt, status_code,
                events, requests, written, connected, cpc, cancelledAt>>
\* what the worker is given: the folder as it is on disk and the extensions
givenVars == <<folder, listable, exts>>
\* what run() reads and never writes
inputVars == <<givenVars, files, prompts, connected>>
\* the caller of cancel() on a lone worker
callerVars == <<cpc, cancelledAt, ncancel>>
shellVars == <<source_folder, generate_btn, cancel_btn, thread, modal,
               global_prompt_edit, table, nworkers, aborted, closing>>
vars == <<givenVars, workerVars, ncancel, shellVars, queue>>

(* ------------------------------ signals ------------------------------- *)
\* one emitted signal: sig and msg are what the slot receives (pct for
\* progress_updated); file (the 1-based place of the file in work, 0 outside
\* the loop) and by (the method that emitted) are kept for the record
Event(sig, msg, pct, file, by) ==
  [sig |-> sig, msg |-> msg, pct |-> pct, file |-> file, by |-> by]

NoFilesMsg == <<"No image files found.">>
CancelledMsg == <<"Generation cancelled.">>
SkippingMsg(filename) == <<"Skipping ", filename, ": No prompt provided.">>
GeneratedMsg(name) == <<"Generated ", name>>
FailedMsg(filename, code) == <<"Failed to generate ", filename, ": HTTP ", code>>
ErrorMsg(filename, e) == <<"Error generating ", filename, ": ", e>>

\* HTTP status codes the service may answer
StatusCodes == {200, 500}

\* signal.emit() from thread w: every connected slot is a slot of the
\* window, which lives in the GUI thread, so the call is queued
Emit(w, e) ==
  /\ events' = [events EXCEPT ![w] = Append(@, e)]
  /\ queue' = IF connected[w]
              THEN Append(queue, [w |-> w, sig |-> e.sig, msg |-> e.msg])
              ELSE queue

\* the fields __init__ sets, for a worker that is not constructed yet
NoWorker ==
  /\ pc = [w \in Workers |-> "none"]
  /\ files = [w \in Workers |-> <<>>]
  /\ prompts = [w \in Workers |-> <<>>]
  /\ cancelledFlag = [w \in Workers |-> FALSE]
  /\ i = [w \in Workers |-> 0]
  /\ prompt = [w \in Workers |-> <<>>]
  /\ status_code = [w \in Workers |-> 0]
  /\ events = [w \in Workers |-> <<>>]
  /\ requests = [w \in Workers |-> <<>>]
  /\ written = [w \in Workers |-> <<>>]
  /\ connected = [w \in Workers |-> FALSE]
  /\ cpc = [w \in Workers |-> "idle"]
  /\ cancelledAt = [w \in Workers |-> <<>>]

\* the entries of Entries picked by keep, in order
RECURSIVE Pick(_, _)
Pick(keep, k) ==
  IF k > Len(Entries) THEN <<>>
  ELSE IF k \in keep THEN <<Entries[k]>> \o Pick(keep, k + 1)
  ELSE Pick(keep, k + 1)

\* the listings a folder of at most n entries may have
Folders(n) ==
  { Pick(keep, 1) : keep \in { K \in SUBSET (1..Len(Entries)) :
                                 Cardinality(K) <= n } }

\* the prompt dicts a caller may pass: 'global' absent or with a text, and
\* any of the CustomKeys with a text
PromptMaps ==
  UNION { { g @@ c : g \in [D \cap {GlobalKey} -> GlobalTexts],
                     c \in [D \cap CustomKeys -> CustomTexts] } :
            D \in SUBSET ({GlobalKey} \cup CustomKeys) }

(* ------------------------ ImageGeneratorThread ------------------------ *)
total(w) == Len(files[w])
filename(w) == files[w][i[w] + 1]

Goto(w, label) == pc' = [pc EXCEPT ![w] = label]

\* the process runs: Qt did not abort it, and the window was not closed
\* (app.exec() returns when the last window is closed, line 486)
Alive == ~aborted /\ closing = "no"

\* the thread of worker w stands at label, in a process that is alive
At(w, label) == Alive /\ pc[w] = label

\* run() without lines 43-46
RunStartUnchecked(w) ==
  /\ At(w, "run")
  /\ Goto(w, "loop")
  /\ UNCHANGED <<inputVars, callerVars, shellVars, cancelledFlag, i, prompt,
                 status_code, events, requests, written, queue>>

\* lines 42-44: an empty file list is reported as a status
RunStart(w) ==
  /\ At(w, "run")
  /\ IF total(w) = 0
     THEN /\ Emit(w, Event("status_updated", NoFilesMsg, -1, 0, "run"))
          /\ Goto(w, "empty_finish")
     ELSE /\ Goto(w, "loop")
          /\ UNCHANGED <<events, queue>>
  /\ UNCHANGED <<inputVars, callerVars, shellVars, cancelledFlag, i, prompt,
                 status_code, requests, written>>

\* lines 45-46: ... and the run is finished
EmptyFinish(w) ==
  /\ At(w, "empty_finish")
  /\ Emit(w, Event("finished_all", <<>>, -1, 0, "run"))
  /\ Goto(w, "done")
  /\ UNCHANGED <<inputVars, callerVars, shellVars, cancelledFlag, i, prompt,
                 status_code, requests, written>>

\* lines 48-49: the next file, if any, and the test of the flag
LoopTop(w) ==
  /\ At(w, "loop")
  /\ IF i[w] = total(w) THEN Goto(w, "after")
     ELSE IF cancelledFlag[w] THEN Goto(w, "loop_cancel_status")
     ELSE Goto(w, "resolve")
  /\ UNCHANGED <<inputVars, callerVars, shellVars, cancelledFlag, i, prompt,
                 status_code, events, requests, written, queue>>

\* line 50
LoopCancelStatus(w) ==
  /\ At(w, "loop_cancel_status")
  /\ Emit(w, Event("status_updated", CancelledMsg, -1, 0, "run"))
  /\ Goto(w, "loop_cancel_emit")
  /\ UNCHANGED <<inputVars, callerVars, shellVars, cancelledFlag, i, prompt,
                 status_code, requests, written>>

\* lines 51-52
LoopCancelEmit(w) ==
  /\ At(w, "loop_cancel_emit")
  /\ Emit(w, Event("cancelled", <<>>, -1, 0, "run"))
  /\ Goto(w, "done")
  /\ UNCHANGED <<inputVars, callerVars, shellVars, cancelledFlag, i, prompt,
                 status_code, requests, written>>

\* lines 55-60: the prompt of the file; a file without one is skipped, and
\* continue leaves the loop body before line 84
Resolve(w) ==
  /\ At(w, "resolve")
  /\ LET p == ResolvePrompt(filename(w), prompts[w])
     IN /\ prompt' = [prompt EXCEPT ![w] = p]
        /\ IF p = <<>>
           THEN /\ Emit(w, Event("status_updated", SkippingMsg(filename(w)),
                                 -1, i[w] + 1, "run"))
                /\ i' = [i EXCEPT ![w] = @ + 1]
                /\ Goto(w, "loop")
           ELSE /\ Goto(w, "request")
                /\ UNCHANGED <<i, events, queue>>
  /\ UNCHANGED <<inputVars, callerVars, shellVars, cancelledFlag,
                 status_code, requests, written>>

\* lines 62-63: the GET is sent and the thread blocks in it
Request(w) ==
  /\ At(w, "request")
  /\ requests' = [requests EXCEPT ![w] =
                    Append(@, [file |-> i[w] + 1, prompt |-> prompt[w]])]
  /\ Goto(w, "await")
  /\ UNCHANGED <<inputVars, callerVars, shellVars, cancelledFlag, i, prompt,
                 status_code, events, written, queue>>

\* line 63 returns with a status code
Response(w) ==
  /\ At(w, "await")
  /\ \E code \in StatusCodes :
       status_code' = [status_code EXCEPT ![w] = code]
  /\ Goto(w, "response")
  /\ UNCHANGED <<inputVars, callerVars, shellVars, cancelledFlag, i, prompt,
                 events, requests, written, queue>>

\* line 63 raises, with the try of line 54 around the loop and not in it:
\* the error is reported and the loop is left
RequestRaisesLeavesLoop(w) ==
  /\ At(w, "await")
  /\ Emit(w, Event("error_occurred", ErrorMsg(filename(w), "timeout"),
                   -1, i[w] + 1, "run"))
  /\ Goto(w, "after")
  /\ UNCHANGED <<inputVars, callerVars, shellVars, cancelledFlag, i, prompt,
                 status_code, requests, written>>

\* line 63 raises (no connection, timeout after 30 s): lines 81-82
RequestRaises(w) ==
  /\ At(w, "await")
  /\ Emit(w, Event("error_occurred", ErrorMsg(filename(w), "timeout"),
                   -1, i[w] + 1, "run"))
  /\ Goto(w, "progress")
  /\ UNCHANGED <<inputVars, callerVars, shellVars, cancelledFlag, i, prompt,
                 status_code, requests, written>>

\* lines 64, 79-80: any status but 200 is reported as a status
ResponseFailed(w) ==
  /\ At(w, "response")
  /\ status_code[w] # 200
  /\ Emit(w, Event("status_updated", FailedMsg(filename(w), status_code[w]),
                   -1, i[w] + 1, "run"))
  /\ Goto(w, "progress")
  /\ UNCHANGED <<inputVars, callerVars, shellVars, cancelledFlag, i, prompt,
                 status_code, requests, written>>

\* lines 64-78: the image is written under the output name
Save(w) ==
  /\ At(w, "response")
  /\ status_code[w] = 200
  /\ LET out == OutputName(filename(w))
     IN /\ written' = [written EXCEPT ![w] =
                         Append(@, [path |-> out[1], format |-> out[2],
                                    file |-> i[w] + 1, complete |-> TRUE])]
        /\ Emit(w, Event("status_updated", GeneratedMsg(out[1]),
                         -1, i[w] + 1, "run"))
  /\ Goto(w, "progress")
  /\ UNCHANGED <<inputVars, callerVars, shellVars, cancelledFlag, i, prompt,
                 status_code, requests>>

\* line 69 raises (the body is no image), or line 71 or 77 raises (the file
\* is left incomplete): lines 81-82
SaveRaises(w) ==
  /\ At(w, "response")
  /\ status_code[w] = 200
  /\ LET out == OutputName(filename(w))
     IN \E fault \in {"decode", "write"} :
          /\ fault = "decode" => out[2] = "jpeg"
          /\ written' = [written EXCEPT ![w] =
               IF fault = "write"
               THEN Append(@, [path |-> out[1], format |-> out[2],
                               file |-> i[w] + 1, complete |-> FALSE])
               ELSE @]
          /\ Emit(w, Event("error_occurred", ErrorMsg(filename(w), fault),
                           -1, i[w] + 1, "run"))
  /\ Goto(w, "progress")
  /\ UNCHANGED <<inputVars, callerVars, shellVars, cancelledFlag, i, prompt,
                 status_code, requests>>

\* line 84, and back to line 48
Progress(w) ==
  /\ At(w, "progress")
  /\ Emit(w, Event("progress_updated", <<>>, Percent(i[w] + 1, total(w)),
                   i[w] + 1, "run"))
  /\ i' = [i EXCEPT ![w] = @ + 1]
  /\ Goto(w, "loop")
  /\ UNCHANGED <<inputVars, callerVars, shellVars, cancelledFlag, prompt,
                 status_code, requests, written>>

\* lines 86-87 without the else of lines 88-90
AfterLoopNoElse(w) ==
  /\ At(w, "after")
  /\ IF ~cancelledFlag[w]
     THEN Emit(w, Event("finished_all", <<>>, -1, 0, "run"))
     ELSE UNCHANGED <<events, queue>>
  /\ Goto(w, "done")
  /\ UNCHANGED <<inputVars, callerVars, shellVars, cancelledFlag, i, prompt,
                 status_code, requests, written>>

\* lines 86-87, 88
AfterLoop(w) ==
  /\ At(w, "after")
  /\ IF ~cancelledFlag[w]
     THEN /\ Emit(w, Event("finished_all", <<>>, -1, 0, "run"))
          /\ Goto(w, "done")
     ELSE /\ Goto(w, "after_cancel_status")
          /\ UNCHANGED <<events, queue>>
  /\ UNCHANGED <<inputVars, callerVars, shellVars, cancelledFlag, i, prompt,
                 status_code, requests, written>>

\* line 89
AfterCancelStatus(w) ==
  /\ At(w, "after_cancel_status")
  /\ Emit(w, Event("status_updated", CancelledMsg, -1, 0, "run"))
  /\ Goto(w, "after_cancel_emit")
  /\ UNCHANGED <<inputVars, callerVars, shellVars, cancelledFlag, i, prompt,
                 status_code, requests, written>>

\* line 90
AfterCancelEmit(w) ==
  /\ At(w, "after_cancel_emit")
  /\ Emit(w, Event("cancelled", <<>>, -1, 0, "run"))
  /\ Goto(w, "done")
  /\ UNCHANGED <<inputVars, callerVars, shellVars, cancelledFlag, i, prompt,
                 status_code, requests, written>>

\* QThread.isRunning(): true from start() until the thread has ended
isRunning(w) == pc[w] \notin {"none", "raised", "finished", "destroyed"}

\* run() has returned
Returned(w) == pc[w] \in {"done", "finished", "destroyed"}

\* the window dropped its reference (del self.thread, or self.thread bound
\* to a later worker); the frame of run() holds the last one
Unreferenced(w) == connected[w] /\ thread # w

\* the fields of w after the Python object is gone
Destroy(w) ==
  /\ pc' = [pc EXCEPT ![w] = "destroyed"]
  /\ files' = [files EXCEPT ![w] = <<>>]
  /\ prompts' = [prompts EXCEPT ![w] = <<>>]
  /\ cancelledFlag' = [cancelledFlag EXCEPT ![w] = FALSE]
  /\ i' = [i EXCEPT ![w] = 0]
  /\ prompt' = [prompt EXCEPT ![w] = <<>>]
  /\ status_code' = [status_code EXCEPT ![w] = 0]
  /\ events' = [events EXCEPT ![w] = <<>>]
  /\ requests' = [requests EXCEPT ![w] = <<>>]
  /\ written' = [written EXCEPT ![w] = <<>>]
  /\ connected' = [connected EXCEPT ![w] = FALSE]
  /\ cancelledAt' = [cancelledAt EXCEPT ![w] = <<>>]
  /\ UNCHANGED cpc

\* run() has returned and the thread ends.  A QThread nobody refers to is
\* destroyed as the frame of run() goes: Qt aborts the process when a
\* QThread is destroyed before its thread has ended ("QThread: Destroyed
\* while thread is still running"), unless the thread was already ending
ThreadExit(w) ==
  /\ At(w, "done")
  /\ IF Unreferenced(w)
     THEN /\ Destroy(w)
          /\ aborted' \in BOOLEAN
     ELSE /\ Goto(w, "finished")
          /\ UNCHANGED <<inputVars, cancelledFlag, i, prompt, status_code,
                         events, requests, written, cpc, cancelledAt,
                         aborted>>
  /\ UNCHANGED <<givenVars, ncancel, source_folder, closing,
                 generate_btn, cancel_btn, thread, queue, modal,
                 global_prompt_edit, table, nworkers>>

\* the thread of worker w takes its next step
Run(w) ==
  \/ RunStart(w) \/ EmptyFinish(w) \/ ThreadExit(w)
  \/ LoopTop(w) \/ LoopCancelStatus(w) \/ LoopCancelEmit(w)
  \/ Resolve(w) \/ Request(w) \/ Response(w) \/ RequestRaises(w)
  \/ ResponseFailed(w) \/ Save(w) \/ SaveRaises(w) \/ Progress(w)
  \/ AfterLoop(w) \/ AfterCancelStatus(w) \/ AfterCancelEmit(w)

\* the record of where run() stood when cancel() was first called: between
\* two files (before line 49 has read the flag for file i + 1) or not
Noted(at, w) ==
  IF at # <<>> THEN at
  ELSE <<[between |-> pc[w] \in {"run", "loop"}, i |-> i[w]]>>

(* cancel() called on a worker that is connected to no window, by a caller *)
(* in another thread: line 31, then line 32                                *)
CancelSet(w) ==
  /\ pc[w] \notin {"none", "raised"}
  /\ cpc[w] = "idle"
  /\ ncancel < MaxCancels
  /\ ncancel' = ncancel + 1
  /\ cancelledFlag' = [cancelledFlag EXCEPT ![w] = TRUE]
  /\ cancelledAt' = [cancelledAt EXCEPT ![w] = Noted(@, w)]
  /\ cpc' = [cpc EXCEPT ![w] = "emit"]
  /\ UNCHANGED <<inputVars, shellVars, pc, i, prompt, status_code, events,
                 requests, written, queue>>

CancelEmit(w) ==
  /\ cpc[w] = "emit"
  /\ events' = [events EXCEPT ![w] =
                  Append(@, Event("cancelled", <<>>, -1, 0, "cancel"))]
  /\ cpc' = [cpc EXCEPT ![w] = "idle"]
  /\ UNCHANGED <<inputVars, shellVars, pc, cancelledFlag, i, prompt,
                 status_code, requests, written, cancelledAt, ncancel, queue>>

\* the window before a folder is chosen
NoWindow ==
  /\ source_folder = ""
  /\ generate_btn = FALSE
  /\ cancel_btn = FALSE
  /\ thread = 0
  /\ queue = <<>>
  /\ modal = <<>>
  /\ global_prompt_edit = <<>>
  /\ table = <<>>
  /\ nworkers = 0
  /\ aborted = FALSE
  /\ closing = "no"

(* A lone worker: constructed over some folder with some prompt dict and    *)
(* started, with a caller that may call cancel() at any time.  Line 27      *)
(* calls get_image_files, and os.listdir (line 36) raises on a folder that  *)
(* is not there or may not be read: __init__ does not return, there is no   *)
(* worker to start, and pc stays "raised"                                   *)
Init ==
  /\ listable \in BOOLEAN
  /\ folder \in IF listable THEN Folders(MaxFiles) ELSE {<<>>}
  /\ exts \in IF listable THEN ExtensionLists ELSE {image_extensions}
  /\ pc = [w \in Workers |->
             IF w # 1 THEN "none" ELSE IF listable THEN "run" ELSE "raised"]
  /\ files = [w \in Workers |->
                IF w = 1 /\ listable THEN get_image_files(folder, exts)
                ELSE <<>>]
  /\ prompts \in { [w \in Workers |-> IF w = 1 THEN p ELSE <<>>] :
                     p \in PromptMaps }
  /\ cancelledFlag = [w \in Workers |-> FALSE]
  /\ i = [w \in Workers |-> 0]
  /\ prompt = [w \in Workers |-> <<>>]
  /\ status_code = [w \in Workers |-> 0]
  /\ events = [w \in Workers |-> <<>>]
  /\ requests = [w \in Workers |-> <<>>]
  /\ written = [w \in Workers |-> <<>>]
  /\ connected = [w \in Workers |-> FALSE]
  /\ cpc = [w \in Workers |-> "idle"]
  /\ cancelledAt = [w \in Workers |-> <<>>]
  /\ ncancel = 0
  /\ NoWindow

Next ==
  \/ RunStart(1) \/ EmptyFinish(1)
  \/ LoopTop(1) \/ LoopCancelStatus(1) \/ LoopCancelEmit(1)
  \/ Resolve(1) \/ Request(1) \/ Response(1) \/ RequestRaises(1)
  \/ ResponseFailed(1) \/ Save(1) \/ SaveRaises(1) \/ Progress(1)
  \/ AfterLoop(1) \/ AfterCancelStatus(1) \/ AfterCancelEmit(1)
  \/ ThreadExit(1)
  \/ CancelSet(1) \/ CancelEmit(1)

Spec == Init /\ [][Next]_vars

\* line 84 as a step of the thread, told by where the thread stands before
\* and after it: the step Progress takes, whatever the value it emits
ProgressStep(w) ==
  /\ At(w, "progress")
  /\ Goto(w, "loop")

\* a step of the thread of worker w up to its return: each moves pc
Advance(w) ==
  \/ RunStart(w) \/ EmptyFinish(w)
  \/ LoopTop(w) \/ LoopCancelStatus(w) \/ LoopCancelEmit(w)
  \/ Resolve(w) \/ Request(w) \/ Response(w) \/ RequestRaises(w)
  \/ ResponseFailed(w) \/ Save(w) \/ SaveRaises(w) \/ ProgressStep(w)
  \/ AfterLoop(w) \/ AfterCancelStatus(w) \/ AfterCancelEmit(w)

\* a lone worker that was constructed and started, under a scheduler that
\* lets its thread run: a step of run() that can be taken is taken in the
\* end, and requests.get (line 63, timeout=30) returns or raises within its
\* timeout
LiveInit ==
  /\ Init
  /\ listable
  /\ exts = image_extensions
  /\ Len(folder) <= MaxLiveFiles

LiveSpec == LiveInit /\ [][Next]_vars /\ WF_pc(Advance(1))

(* --------------------------- ImageReplacerApp -------------------------- *)
\* texts a user may type into the global prompt field and into a table cell
TypedGlobal == { <<>>, <<" ">>, <<"s", "u", "n">> }
TypedCell == { <<>>, <<"c", "a", "t">>, GlobalKey }

\* str.strip()
RECURSIVE LStrip(_)
LStrip(s) == IF s # <<>> /\ s[1] = " " THEN LStrip(Tail(s)) ELSE s
RECURSIVE RStrip(_)
RStrip(s) ==
  IF s # <<>> /\ s[Len(s)] = " " THEN RStrip(SubSeq(s, 1, Len(s) - 1)) ELSE s
Strip(s) == RStrip(LStrip(s))

\* a message box is application modal: while one is open the widgets of the
\* window take no input, and the queued signals are still delivered
Interactive == Alive /\ modal = <<>>

\* lines 404-411: the prompt dict collected from the window
CollectPrompts ==
  LET rows == { r \in 1..Len(table) : Strip(table[r].prompt) # <<>> }
      keys == {GlobalKey} \cup { table[r].filename : r \in rows }
  IN [k \in keys |->
        IF \E r \in rows : table[r].filename = k
        THEN Strip(table[CHOOSE r \in rows : table[r].filename = k].prompt)
        ELSE Strip(global_prompt_edit)]

\* line 413: no prompt was given
NoPromptGiven(p) ==
  /\ p[GlobalKey] = <<>>
  /\ \A k \in DOMAIN p : p[k] # GlobalKey => p[k] = <<>>

\* the five setters the slots share (lines 436-439, 448-451, 462-465)
ButtonsIdle ==
  /\ generate_btn' = TRUE
  /\ cancel_btn' = FALSE

\* select_folder with a folder chosen, and load_files
select_folder ==
  /\ Interactive
  /\ source_folder' = "dir"
  /\ table' = [r \in 1..Len(get_image_files(folder, image_extensions)) |->
                 [filename |-> get_image_files(folder, image_extensions)[r],
                  prompt |-> <<>>]]
  /\ generate_btn' = TRUE
  /\ UNCHANGED <<inputVars, callerVars, pc, cancelledFlag, i, prompt,
                 status_code, events, requests, written, cancel_btn, thread,
                 queue, modal, global_prompt_edit, nworkers, aborted,
                 closing>>

\* the user types a global prompt (here: before the first run only)
EditGlobal ==
  /\ Interactive
  /\ nworkers = 0
  /\ \E t \in TypedGlobal :
       /\ t # global_prompt_edit
       /\ global_prompt_edit' = t
  /\ UNCHANGED <<inputVars, callerVars, pc, cancelledFlag, i, prompt,
                 status_code, events, requests, written, source_folder,
                 closing,
                 generate_btn, cancel_btn, thread, queue, modal, table,
                 nworkers, aborted>>

\* the user types a prompt into a row of the table (before the first run)
EditCell ==
  /\ Interactive
  /\ nworkers = 0
  /\ \E r \in 1..Len(table), t \in TypedCell :
       /\ t # table[r].prompt
       /\ table' = [table EXCEPT ![r].prompt = t]
  /\ UNCHANGED <<inputVars, callerVars, pc, cancelledFlag, i, prompt,
                 status_code, events, requests, written, source_folder,
                 closing,
                 generate_btn, cancel_btn, thread, queue, modal,
                 global_prompt_edit, nworkers, aborted>>

\* f once the window has let go of worker o: the Python object of a worker
\* whose run() has returned is gone with its last reference
Cleared(f, o, v) ==
  IF o # 0 /\ pc[o] \in {"done", "finished"} THEN [f EXCEPT ![o] = v] ELSE f

\* Qt may abort the process when the object goes while the thread is ending
MayAbort(o) ==
  aborted' \in IF o # 0 /\ pc[o] = "done" THEN BOOLEAN ELSE {aborted}

\* start_generation, on a click on generate_btn
start_generation ==
  /\ Interactive
  /\ generate_btn
  /\ nworkers < MaxWorkers
  /\ IF source_folder = "" \/ NoPromptGiven(CollectPrompts)
     THEN /\ modal' = Append(modal, "warning")
          /\ UNCHANGED <<workerVars, generate_btn, cancel_btn, thread,
                         nworkers, aborted>>
     ELSE LET w == nworkers + 1
              old == thread
          IN /\ generate_btn' = FALSE
             /\ cancel_btn' = TRUE
             /\ thread' = w
             /\ nworkers' = w
             /\ files' = [Cleared(files, old, <<>>) EXCEPT ![w] =
                            get_image_files(folder, image_extensions)]
             /\ prompts' = [Cleared(prompts, old, <<>>) EXCEPT ![w] =
                              CollectPrompts]
             /\ cancelledFlag' = [Cleared(cancelledFlag, old, FALSE)
                                    EXCEPT ![w] = FALSE]
             /\ connected' = [Cleared(connected, old, FALSE)
                                EXCEPT ![w] = TRUE]
             /\ pc' = [Cleared(pc, old, "destroyed") EXCEPT ![w] = "run"]
             /\ i' = Cleared(i, old, 0)
             /\ prompt' = Cleared(prompt, old, <<>>)
             /\ status_code' = Cleared(status_code, old, 0)
             /\ events' = Cleared(events, old, <<>>)
             /\ requests' = Cleared(requests, old, <<>>)
             /\ written' = Cleared(written, old, <<>>)
             /\ cancelledAt' = Cleared(cancelledAt, old, <<>>)
             /\ MayAbort(old)
             /\ UNCHANGED <<cpc, modal>>
  /\ UNCHANGED <<givenVars, ncancel, source_folder, closing,
                 queue, global_prompt_edit, table>>

\* del self.thread, when the attribute is there (lines 444-445, 453-454,
\* 468-469)
DelThread ==
  /\ thread' = 0
  /\ pc' = Cleared(pc, thread, "destroyed")
  /\ files' = Cleared(files, thread, <<>>)
  /\ prompts' = Cleared(prompts, thread, <<>>)
  /\ cancelledFlag' = Cleared(cancelledFlag, thread, FALSE)
  /\ connected' = Cleared(connected, thread, FALSE)
  /\ i' = Cleared(i, thread, 0)
  /\ prompt' = Cleared(prompt, thread, <<>>)
  /\ status_code' = Cleared(status_code, thread, 0)
  /\ events' = Cleared(events, thread, <<>>)
  /\ requests' = Cleared(requests, thread, <<>>)
  /\ written' = Cleared(written, thread, <<>>)
  /\ cancelledAt' = Cleared(cancelledAt, thread, <<>>)
  /\ MayAbort(thread)
  /\ UNCHANGED cpc

\* cancel_generation, on a click on cancel_btn.  cancel() emits cancelled in
\* the GUI thread, so the slot generation_cancelled runs inside the call
cancel_generation ==
  /\ Interactive
  /\ cancel_btn
  /\ IF thread # 0 /\ isRunning(thread)
     THEN /\ ButtonsIdle
          /\ IF pc[thread] = "done"
             THEN DelThread
             ELSE /\ cancelledFlag' = [cancelledFlag EXCEPT ![thread] = TRUE]
                  /\ cancelledAt' = [cancelledAt EXCEPT ![thread] =
                       Noted(@, thread)]
                  /\ events' = [events EXCEPT ![thread] =
                       Append(@, Event("cancelled", <<>>, -1, 0, "cancel"))]
                  /\ thread' = 0
                  /\ UNCHANGED <<inputVars, pc, i, prompt, status_code,
                                 requests, written, cpc, aborted>>
     ELSE UNCHANGED <<workerVars, generate_btn, cancel_btn, thread, aborted>>
  /\ UNCHANGED <<givenVars, ncancel, source_folder, closing,
                 queue, modal, global_prompt_edit, table, nworkers>>

\* the event loop of the GUI thread (also the one a message box runs)
\* delivers the oldest queued signal to its slot
Deliver ==
  /\ Alive
  /\ queue # <<>>
  /\ queue' = Tail(queue)
  /\ LET sig == Head(queue).sig
     IN CASE sig \in {"progress_updated", "status_updated"} ->
               \* progress_bar.setValue, status_label.setText: display only
               UNCHANGED <<workerVars, generate_btn, cancel_btn, thread,
                           modal, aborted>>
          [] sig = "finished_all" ->
               \* generation_finished, up to the message box of line 442
               /\ ButtonsIdle
               /\ modal' = Append(modal, "information")
               /\ UNCHANGED <<workerVars, thread, aborted>>
          [] sig = "error_occurred" ->
               \* handle_error, up to the message box of line 467
               /\ ButtonsIdle
               /\ modal' = Append(modal, "critical")
               /\ UNCHANGED <<workerVars, thread, aborted>>
          [] sig = "cancelled" ->
               \* generation_cancelled
               /\ ButtonsIdle
               /\ DelThread
               /\ UNCHANGED modal
  /\ UNCHANGED <<givenVars, ncancel, source_folder, closing,
                 global_prompt_edit, table, nworkers>>

\* the user closes the innermost message box and the slot that opened it
\* goes on: lines 443-445 of generation_finished, 468-469 of handle_error
Dismiss ==
  /\ Alive
  /\ modal # <<>>
  /\ modal' = SubSeq(modal, 1, Len(modal) - 1)
  /\ IF modal[Len(modal)] \in {"information", "critical"}
     THEN DelThread
     ELSE UNCHANGED <<workerVars, thread, aborted>>
  /\ UNCHANGED <<givenVars, ncancel, source_folder, closing,
                 generate_btn, cancel_btn, queue, global_prompt_edit, table,
                 nworkers>>

\* closeEvent, when the user closes the window.  With a running worker,
\* line 473 calls cancel() in the GUI thread: line 32 emits cancelled, the
\* slot generation_cancelled runs inside the call and deletes self.thread
\* (line 454), so self.thread on line 474 raises AttributeError; PyQt6 ends
\* the process (qFatal) on an exception that leaves a reimplemented handler.
\* Lines 474-479 are never run.  Without a running worker: line 480
closeEvent ==
  /\ Interactive
  /\ IF thread # 0 /\ isRunning(thread)
     THEN /\ ButtonsIdle
          /\ thread' = 0
          /\ IF pc[thread] = "done"
             THEN /\ pc' = Cleared(pc, thread, "destroyed")
                  /\ files' = Cleared(files, thread, <<>>)
                  /\ prompts' = Cleared(prompts, thread, <<>>)
                  /\ cancelledFlag' = Cleared(cancelledFlag, thread, FALSE)
                  /\ connected' = Cleared(connected, thread, FALSE)
                  /\ i' = Cleared(i, thread, 0)
                  /\ prompt' = Cleared(prompt, thread, <<>>)
                  /\ status_code' = Cleared(status_code, thread, 0)
                  /\ events' = Cleared(events, thread, <<>>)
                  /\ requests' = Cleared(requests, thread, <<>>)
                  /\ written' = Cleared(written, thread, <<>>)
                  /\ cancelledAt' = Cleared(cancelledAt, thread, <<>>)
                  /\ UNCHANGED cpc
             ELSE /\ cancelledFlag' = [cancelledFlag EXCEPT ![thread] = TRUE]
                  /\ cancelledAt' = [cancelledAt EXCEPT ![thread] =
                       Noted(@, thread)]
                  /\ events' = [events EXCEPT ![thread] =
                       Append(@, Event("cancelled", <<>>, -1, 0, "cancel"))]
                  /\ UNCHANGED <<files, prompts, connected, pc, i, prompt,
                                 status_code, requests, written, cpc>>
          /\ closing' = "raised"
          /\ aborted' = TRUE
     ELSE /\ closing' = "accepted"
          /\ UNCHANGED <<workerVars, generate_btn, cancel_btn, thread,
                         aborted>>
  /\ UNCHANGED <<givenVars, ncancel, source_folder, queue, modal,
                 global_prompt_edit, table, nworkers>>

(* The window: no worker yet, the user acts, the workers it starts run      *)
ShellInit ==
  /\ folder \in Folders(MaxShellFiles)
  /\ listable = TRUE
  /\ exts = image_extensions
  /\ NoWorker
  /\ ncancel = 0
  /\ NoWindow

ShellNext ==
  \/ select_folder \/ EditGlobal \/ EditCell
  \/ start_generation \/ cancel_generation \/ closeEvent
  \/ Deliver \/ Dismiss
  \/ \E w \in Workers : Run(w)

ShellSpec == ShellInit /\ [][ShellNext]_vars

(* ============================== claims ================================= *)
(* The claims on ImageGeneratorThread are about worker 1 of Spec, the lone *)
(* worker; those on the window are about ShellSpec.                         *)

\* how many of the signals worker 1 emitted satisfy P
NumEvents(P(_)) ==
  Cardinality({ k \in 1..Len(events[1]) : P(events[1][k]) })

IsTerminal(e) == e.sig \in {"finished_all", "cancelled"}
IsProgress(e) == e.sig = "progress_updated"
IsError(e) == e.sig = "error_occurred"
IsStatus(e) == e.sig = "status_updated"
IsSkip(e) == IsStatus(e) /\ e.msg[1] = "Skipping "
IsFailed(e) == IsStatus(e) /\ e.msg[1] = "Failed to generate "
IsGenerated(e) == IsStatus(e) /\ e.msg[1] = "Generated "
\* the status, skip or error event of one file
IsPerFile(e) == e.file > 0 /\ (IsStatus(e) \/ IsError(e))

\* run() has returned and no call of cancel() is under way
RunOver == pc[1] \in {"done", "finished"} /\ cpc[1] = "idle"

\* the prompt of the f-th file of worker 1 is not empty
Prompted(f) == ResolvePrompt(files[1][f], prompts[1]) # <<>>

\* the values of the progress events of worker 1, in order
ProgressValues ==
  LET sel == SelectSeq(events[1], IsProgress)
  IN [k \in 1..Len(sel) |-> sel[k].pct]

\* a run over at least one file, each with a prompt, that nobody cancelled
CompleteRun ==
  /\ RunOver
  /\ ncancel = 0
  /\ total(1) >= 1
  /\ \A f \in 1..total(1) : Prompted(f)

\* C1: once run() has returned and every call of cancel() is over, exactly
\* one terminal event (finished_all or cancelled) has been emitted, counting
\* those of run() and those of cancel().
C1_ExactlyOneTerminal == RunOver => NumEvents(IsTerminal) = 1

\* C2: when cancel() was called between file k-1 and file k (after k-1 was
\* finished, before line 49 read the flag for file k), the run ends with
\* exactly k-1 per-file status/error/skip events, no status, error or
\* progress event of file k or a later one, and exactly one cancelled event.
C2_CancelBeforeFileK ==
  (/\ RunOver
   /\ cancelledAt[1] # <<>>
   /\ cancelledAt[1][1].between
   /\ cancelledAt[1][1].i < total(1))
  => LET k == cancelledAt[1][1].i + 1
     IN /\ NumEvents(IsPerFile) = k - 1
        /\ NumEvents(LAMBDA e : e.file >= k) = 0
        /\ NumEvents(LAMBDA e : e.sig = "cancelled") = 1

\* C3: a terminal event is the last event of its run: no signal is emitted
\* after a finished_all or a cancelled.
C3_TerminalIsLast ==
  \A k \in 1..Len(events[1]) : IsTerminal(events[1][k]) => k = Len(events[1])

\* C4: a file whose prompt resolves to the empty string gets no HTTP request,
\* one 'Skipping' status event and, like every file, a progress event.
C4_SkippedFileHasProgress ==
  \A f \in 1..i[1] :
    ~Prompted(f) =>
      /\ \A r \in 1..Len(requests[1]) : requests[1][r].file # f
      /\ NumEvents(LAMBDA e : IsSkip(e) /\ e.file = f) = 1
      /\ NumEvents(LAMBDA e : IsProgress(e) /\ e.file = f) = 1

C6_HundredOnlyWhenCompleted ==
  NumEvents(LAMBDA e : IsProgress(e) /\ e.pct = 100) > 0 =>
    /\ total(1) >= 1
    /\ NumEvents(LAMBDA e : e.sig = "cancelled" /\ e.by = "run") = 0

\* the loop of run() of worker w is under way
RunActive(w) ==
  pc[w] \notin {"none", "raised", "done", "finished", "destroyed"}

\* C7: from the start of a worker by start_generation until its run() has
\* returned, generate_btn stays disabled, so that no two run() loops of one
\* window are ever active together.
C7_StartDisabledWhileRunning ==
  /\ \A w \in Workers : RunActive(w) => ~generate_btn
  /\ Cardinality({ w \in Workers : RunActive(w) }) <= 1

\* C8: a file that fails (an exception, or a status other than 200) gets one
\* error event or one 'Failed to generate' status event, then its progress
\* event, and the loop goes on; run() emits a terminal event only when the
\* list is exhausted or the cancel flag is set, and a run that nobody
\* cancelled handles every file.
C8_FailureDoesNotEndRun ==
  /\ \A f \in 1..total(1) :
       LET failures ==
             NumEvents(LAMBDA e : e.file = f /\ (IsError(e) \/ IsFailed(e)))
           progress == NumEvents(LAMBDA e : e.file = f /\ IsProgress(e))
       IN /\ failures <= 1
          /\ failures = 1 =>
               IF i[1] >= f THEN progress = 1
               ELSE pc[1] = "progress" /\ i[1] = f - 1 /\ progress = 0
  /\ NumEvents(LAMBDA e : IsTerminal(e) /\ e.by = "run") > 0 =>
       /\ Returned(1)
       /\ i[1] = total(1) \/ cancelledFlag[1]
  /\ (RunOver /\ ncancel = 0) =>
       /\ i[1] = total(1)
       /\ NumEvents(LAMBDA e : e.sig = "finished_all") = 1
       /\ \A f \in 1..total(1) :
            NumEvents(LAMBDA e : IsPerFile(e) /\ e.file = f) = 1

\* C8: a run nobody cancelled whose first file raised, whose second file got
\* a status other than 200, and which still finished
C8_Witness ==
  /\ RunOver
  /\ ncancel = 0
  /\ NumEvents(LAMBDA e : IsError(e) /\ e.file = 1) = 1
  /\ NumEvents(LAMBDA e : IsFailed(e) /\ e.file = 2) = 1
  /\ NumEvents(LAMBDA e : IsProgress(e)) = total(1)
  /\ NumEvents(LAMBDA e : e.sig = "finished_all") = 1

\* C9: a run whose file list is empty emits one status event ('No image files
\* found.') and one finished_all, no progress event, no error event, and
\* sends no HTTP request.
C9_EmptyRun ==
  total(1) = 0 =>
    /\ NumEvents(IsProgress) = 0
    /\ NumEvents(IsError) = 0
    /\ requests[1] = <<>>
    /\ NumEvents(IsStatus) <= 1
    /\ NumEvents(LAMBDA e : e.sig = "finished_all") <= 1
    /\ Returned(1) =>
         /\ NumEvents(LAMBDA e : IsStatus(e) /\ e.msg = NoFilesMsg) = 1
         /\ NumEvents(IsStatus) = 1
         /\ NumEvents(LAMBDA e : e.sig = "finished_all") = 1

\* C9: the run over a folder that holds no image has returned
C9_Witness ==
  /\ RunOver
  /\ total(1) = 0
  /\ folder # <<>>
  /\ NumEvents(IsStatus) = 1

\* the prompt the claim gives file name f under the prompt dict d
ClaimedPrompt(f, d) ==
  LET global == IF GlobalKey \in DOMAIN d THEN d[GlobalKey] ELSE <<>>
  IN IF f \in DOMAIN d THEN d[f]
     ELSE IF global # <<>> THEN global \o Suffix \o f
     ELSE <<>>

\* C10: the prompt of a file is its own entry, without suffix, when it has
\* one; else the global text followed by ' - unique variation for <f>' when
\* that text is not empty; else empty, and the file is skipped.
C10_PromptResolution ==
  LET last == IF pc[1] \in {"request", "await", "response", "progress"}
              THEN i[1] + 1 ELSE i[1]
  IN /\ last >= 1 => prompt[1] = ClaimedPrompt(files[1][last], prompts[1])
     /\ \A r \in 1..Len(requests[1]) :
          /\ requests[1][r].prompt # <<>>
          /\ requests[1][r].prompt =
               ClaimedPrompt(files[1][requests[1][r].file], prompts[1])
     /\ \A f \in 1..i[1] :
          ClaimedPrompt(files[1][f], prompts[1]) = <<>>
            <=> NumEvents(LAMBDA e : IsSkip(e) /\ e.file = f) = 1

\* C10: one run asked for a file's own prompt as it is and for the global
\* prompt with the suffix
C10_Witness ==
  /\ Len(requests[1]) >= 2
  /\ requests[1][1].prompt = <<"c", "a", "t">>
  /\ requests[1][2].prompt =
       <<"s", "u", "n">> \o Suffix \o <<"a", ".", "j", "p", "e", "g">>

\* the entries of a listing whose name ends with a member of E, both taken
\* without regard to letter case
ClaimedFiles(listing, E) ==
  SelectSeq(listing,
            LAMBDA f : \E k \in 1..Len(E) : EndsWith(Lower(f), Lower(E[k])))

\* C11: the file list of a worker is exactly the entries of the folder whose
\* name ends, compared case-insensitively, with a member of the extension
\* list, whatever the letter case of the name or of the member.
C11_EnumeratorCaseInsensitive ==
  pc[1] # "raised" => files[1] = ClaimedFiles(folder, exts)

\* C12: on a folder that is not there or cannot be read the worker is still
\* constructed, with an empty file list, and its run reports the empty
\* input: 'No image files found.' and finished_all.
C12_MissingFolderIsEmptyRun ==
  ~listable =>
    /\ pc[1] # "raised"
    /\ files[1] = <<>>
    /\ RunOver =>
         /\ NumEvents(LAMBDA e : IsStatus(e) /\ e.msg = NoFilesMsg) = 1
         /\ NumEvents(LAMBDA e : e.sig = "finished_all") = 1

\* C13: cancel() is idempotent: a second call changes neither the state of
\* the worker nor the sequence of events emitted so far.
C13_CancelIdempotent ==
  [][(ncancel >= 2 /\ cpc[1] = "emit" /\ cpc'[1] = "idle")
       => (events'[1] = events[1] /\ cancelledFlag'[1] = cancelledFlag[1])]_vars

\* the places in written of the output files worker 1 wrote to the end
Completed == { k \in 1..Len(written[1]) : written[1][k].complete }

\* C14: after a run nobody cancelled, the output folder holds as many files
\* of the run as there are 'Generated' status events: no two files of the
\* run were written to the same output path.
C14_OneFilePerGenerated ==
  (RunOver /\ ncancel = 0) =>
    /\ Cardinality({ written[1][k].path : k \in Completed })
         = NumEvents(IsGenerated)
    /\ \A j, k \in Completed :
         j # k => written[1][j].path # written[1][k].path

\* C17: a cancel() that arrives while a file is in work (after line 49 read
\* the flag for it) does not interrupt that file: its status or error event
\* and its progress event are still emitted; and no request is sent and no
\* output written for any later file.
C17_CancelOnlyBetweenFiles ==
  (/\ RunOver
   /\ cancelledAt[1] # <<>>
   /\ ~cancelledAt[1][1].between
   /\ cancelledAt[1][1].i < total(1))
  => LET f == cancelledAt[1][1].i + 1
     IN /\ NumEvents(LAMBDA e : IsPerFile(e) /\ e.file = f) = 1
        /\ NumEvents(LAMBDA e : IsProgress(e) /\ e.file = f) = 1
        /\ \A r \in 1..Len(requests[1]) : requests[1][r].file <= f
        /\ \A k \in 1..Len(written[1]) : written[1][k].file <= f

\* the output name the claim gives file name f: the name up to its last dot,
\* then '.jpg' when what follows, lower-cased, is '.jpg' or '.jpeg', and
\* '.png' otherwise
ClaimedOutput(f) ==
  LET d == LastDot(f, Len(f))
      base == SubSeq(f, 1, d - 1)
      ext == Lower(SubSeq(f, d, Len(f)))
  IN base \o (IF ext = ExtJpg \/ ext = ExtJpeg THEN ExtJpg ELSE ExtPng)

\* file f was requested and handled with neither an error event nor a
\* 'Failed to generate' status: the answer was 200 and nothing raised
Succeeded(f) ==
  /\ f <= i[1] \/ (f = i[1] + 1 /\ pc[1] = "progress")
  /\ \E r \in 1..Len(requests[1]) : requests[1][r].file = f
  /\ NumEvents(LAMBDA e : e.file = f /\ (IsError(e) \/ IsFailed(e))) = 0

\* C20: a file answered with 200 and handled without exception has exactly
\* one output file and exactly one 'Generated <name>' status event, <name>
\* being the base name plus '.jpg' for a '.jpg' or '.jpeg' original
\* (whatever its case) and plus '.png' otherwise; the event names the file
\* that was written.  No other file has either.
C20_GeneratedNamesWrittenFile ==
  \A f \in 1..total(1) :
    LET gen == { k \in 1..Len(events[1]) :
                   IsGenerated(events[1][k]) /\ events[1][k].file = f }
        out == { k \in Completed : written[1][k].file = f }
    IN /\ Cardinality(gen) = Cardinality(out)
       /\ Cardinality(gen) = (IF Succeeded(f) THEN 1 ELSE 0)
       /\ \A k \in out : written[1][k].path = ClaimedOutput(files[1][f])
       /\ \A g \in gen, k \in out :
            events[1][g].msg = <<"Generated ", written[1][k].path>>

\* C20: a finished run that wrote a.jpg for a.jpeg and B.png for B.PNG
C20_Witness ==
  /\ RunOver
  /\ \E k \in Completed :
       /\ files[1][written[1][k].file] = <<"a", ".", "j", "p", "e", "g">>
       /\ written[1][k].path = <<"a", ".", "j", "p", "g">>
  /\ \E k \in Completed :
       /\ files[1][written[1][k].file] = <<"B", ".", "P", "N", "G">>
       /\ written[1][k].path = <<"B", ".", "p", "n", "g">>
  /\ NumEvents(IsGenerated) >= 2

\* C18: every started run terminates: when the thread is scheduled and each
\* GET returns or raises, run() emits finished_all or cancelled, once, and
\* returns, whatever the files, the prompts, the outcome of each file and
\* the calls of cancel().
C18_RunTerminates ==
  (pc[1] = "run") ~>
    (Returned(1) /\ NumEvents(LAMBDA e : IsTerminal(e) /\ e.by = "run") = 1)

\* C18: a cancelled run over a file that raised and a file that got a status
\* other than 200 has returned with the cancelled of run()
C18_Witness ==
  /\ RunOver
  /\ ncancel >= 1
  /\ NumEvents(IsError) >= 1
  /\ NumEvents(IsFailed) >= 1
  /\ NumEvents(LAMBDA e : e.sig = "cancelled" /\ e.by = "run") = 1

\* C15: the window lets go of its worker (del self.thread) only once the
\* run has ended: while it holds no worker, no run() loop is under way.
C15_DiscardedOnlyWhenOver ==
  thread = 0 => \A w \in Workers : ~RunActive(w)

\* C16: closeEvent does not fail part-way (it asks the worker to cancel,
\* waits, and stops it by force if it is still running), and once it has
\* returned no run() loop is under way.
C16_CloseStopsWorker ==
  /\ closing # "raised"
  /\ closing = "accepted" => \A w \in Workers : ~RunActive(w)

\* a prompt is given somewhere in the window: the global prompt or the
\* prompt of some row is not empty once stripped
PromptProvided ==
  \/ Strip(global_prompt_edit) # <<>>
  \/ \E r \in 1..Len(table) : Strip(table[r].prompt) # <<>>

\* C19: start_generation starts a worker exactly when a folder is selected
\* and a prompt is given somewhere, whatever its text, and shows a warning
\* without starting a worker exactly when not.
C19_StartIffFolderAndPrompt ==
  [][/\ modal' = Append(modal, "warning")
          => (source_folder = "" \/ ~PromptProvided)
     /\ nworkers' # nworkers
          => (source_folder # "" /\ PromptProvided)]_vars

====
